---- MODULE Spec2Model ----
(***************************************************************************)
(* The download manager of live_stream_downloader                          *)
(* (internal/downloader: Downloader and its per-task goroutine) together   *)
(* with the HTTP handlers that call it (internal/handler).                 *)
(*                                                                         *)
(* Every action is one critical section of Downloader.mu, or one step of   *)
(* a worker goroutine between two critical sections (a network or file    *)
(* system call).  Task values are heap objects: tasks[o] is the            *)
(* *model.Task allocated by the o-th CreateTask, and the maps hold         *)
(* references o, as the Go maps hold pointers.                             *)
(*                                                                         *)
(* Go strings that the code inspects (ids, file names) are sequences of    *)
(* one-character strings.                                                  *)
(***************************************************************************)
EXTENDS Integers, Sequences, FiniteSets, TLC

\* ------------------------------------------------------------------ bounds
\* number of CreateTask calls that are let through
MaxTasks == 2
\* readings of time.Now().UnixNano() range over 1..MaxClock
MaxClock == 2
\* a stream delivers at most MaxBytes chunks (one unit each)
MaxBytes == 1

VARIABLES
    tasks,           \* heap of *model.Task, in allocation order
    activeTasks,     \* Downloader.activeTasks    : id -> task reference
    completedTasks,  \* Downloader.completedTasks : id -> task reference
    cancelFuncs,     \* Downloader.cancelFuncs    : id -> worker whose ctx it cancels
    clients,         \* Downloader.clients        : id -> worker that owns the client
    worker,          \* goroutine startDownload(task) of each task: position and locals
    files,           \* paths that exist in the data directory
    env,             \* what the callers send, and which history is kept (fixed by Init)
    lastOp,          \* history: the last call made and what it returned
    deleted,         \* history, per task: the delete call that last returned success on it
    view             \* a handler encoding a task it got from the Downloader

vars == <<tasks, activeTasks, completedTasks, cancelFuncs, clients, worker,
          files, env, lastOp, deleted, view>>

\* --------------------------------------------------------------- constants
TaskStatusDownloading == "downloading"
TaskStatusCompleted == "completed"
TaskStatusError == "error"

\* *time.Time: nil, or a pointer to the reading of time.Now()
NilTime == "nil"
SomeTime == "time"

\* the errors built by fmt.Errorf in startDownload (the text is abbreviated)
ErrCreateRequest == "create request failed"
ErrSendRequest == "send request failed"
ErrStatusCode == "server returned error status code"
ErrCreateFile == "create file failed"
ErrWriteFile == "write file failed"
ErrReadData == "read data failed"

\* what a call returns
ErrNil == "nil"
ErrNotFound == "task does not exist"
ErrRemove == "remove file failed"
ErrBadRequest == "bad request"

\* ------------------------------------------------------------------ inputs
GoodURL == "http://x/live.flv"
BadURL == ":bad"

Clock == 1..MaxClock

\* ----------------------------------------------------------------- strings
Digit(d) ==
    CASE d = 0 -> "0" [] d = 1 -> "1" [] d = 2 -> "2" [] d = 3 -> "3"
      [] d = 4 -> "4" [] d = 5 -> "5" [] d = 6 -> "6" [] d = 7 -> "7"
      [] d = 8 -> "8" [] d = 9 -> "9"

\* fmt.Sprintf("%d", n) for n >= 0
RECURSIVE Itoa(_)
Itoa(n) == IF n < 10 THEN <<Digit(n)>> ELSE Itoa(n \div 10) \o <<Digit(n % 10)>>

\* filepath.Ext: the suffix from the last dot of the last path element
RECURSIVE ExtFrom(_, _)
ExtFrom(path, i) ==
    IF i < 1 \/ path[i] = "/" THEN <<>>
    ELSE IF path[i] = "." THEN SubSeq(path, i, Len(path))
    ELSE ExtFrom(path, i - 1)

Ext(path) == ExtFrom(path, Len(path))

StreamPrefix == <<"s", "t", "r", "e", "a", "m", "_">>
DotFlv == <<".", "f", "l", "v">>
DataDir == <<"/", "d">>

\* filepath.Join(dataDir, fileName), for a clean directory and a clean one-element name
Join(dir, name) == dir \o <<"/">> \o name

\* filepath.Dir of a clean path with a directory: what precedes the last slash
RECURSIVE DirFrom(_, _)
DirFrom(path, i) ==
    IF i < 1 THEN <<>>
    ELSE IF path[i] = "/" THEN SubSeq(path, 1, i - 1)
    ELSE DirFrom(path, i - 1)

Dir(path) == DirFrom(path, Len(path))

\* New makes the data directory (os.MkdirAll) and nothing makes another one, so
\* os.Create finds the directory of a path only if it is the data directory
DirExists(path) == Dir(path) = DataDir

\* the file name settled without looking for an extension
ResolveFileNameAppend(fileName, taskID) ==
    IF fileName = <<>> THEN StreamPrefix \o taskID \o DotFlv
    ELSE fileName \o DotFlv

\* the file name CreateTask settles on
ResolveFileName(fileName, taskID) ==
    IF fileName = <<>> THEN StreamPrefix \o taskID \o DotFlv
    ELSE IF Ext(fileName) = <<>> THEN fileName \o DotFlv
    ELSE fileName

TaskIDs == { Itoa(n) : n \in Clock }

\* url.Parse fails on BadURL (no scheme before the colon)
UrlParses(url) == url # BadURL
\* the transport refuses a URL without a scheme
UrlHasScheme(url) == url # ""

\* -------------------------------------------------------------------- maps
MapPut(m, k, v) == [x \in (DOMAIN m) \cup {k} |-> IF x = k THEN v ELSE m[x]]
MapDelete(m, k) == [x \in (DOMAIN m) \ {k} |-> m[x]]
EmptyMap == [x \in {} |-> 0]

\* ----------------------------------------------------------------- history
NoTask == 0
NoCall ==
    [op |-> "none", url |-> "", name |-> <<>>, id |-> <<>>, task |-> NoTask,
     err |-> ErrNil, again |-> FALSE]
WorkerStep == [NoCall EXCEPT !.op = "worker"]

\* the record of a call on id that found task o and returned err; again says
\* that it repeats, right after it, a call that returned success
Ret(op, id, o, err) ==
    IF env.calls
    THEN [op |-> op, url |-> "", name |-> <<>>, id |-> id, task |-> o, err |-> err,
          again |-> lastOp.op = op /\ lastOp.id = id /\ lastOp.err = ErrNil]
    ELSE lastOp

\* the record of handleCreateTask called with url and fileName
RetCreate(url, fileName, id, o, err) ==
    IF env.calls
    THEN [Ret("CreateTask", id, o, err) EXCEPT !.url = url, !.name = fileName]
    ELSE lastOp

WorkerOp == IF env.calls THEN WorkerStep ELSE lastOp

\* the record that a delete call returned success on task o
Deleted(o, op) == IF env.calls THEN deleted ELSE [deleted EXCEPT ![o] = op]

\* exit is history: the path on which startDownload left its body ("none" while
\* it has not): "error" through handleDownloadError, "eof" through completeTask,
\* "cancelled" through the case of ctx.Done()
NewWorker ==
    [pc |-> "spawned", ctxDone |-> FALSE, file |-> FALSE, totalBytes |-> 0,
     exit |-> "none"]

\* no request for the tasks is being answered
NoView == [pc |-> "idle", task |-> NoTask, at |-> <<>>, Status |-> "", EndTime |-> ""]

\* the failures the network and the disk can produce in a worker
Faults == {ErrSendRequest, ErrStatusCode, ErrCreateFile, ErrWriteFile, ErrReadData}

\* -------------------------------------------------------------------- Init
Start ==
    /\ tasks = <<>>
    /\ activeTasks = EmptyMap
    /\ completedTasks = EmptyMap
    /\ cancelFuncs = EmptyMap
    /\ clients = EmptyMap
    /\ worker = <<>>
    /\ files = {}
    /\ lastOp = NoCall
    /\ deleted = <<>>
    /\ view = NoView

\* every schedule of two tasks, with the history of deletions
Init ==
    /\ Start
    /\ env = [urls |-> {"", GoodURL, BadURL}, names |-> {<<>>}, faults |-> Faults,
              calls |-> FALSE, limit |-> MaxTasks]

\* the calls and what they return, with the history of calls
InitCalls ==
    /\ Start
    /\ env = [urls |-> {"", GoodURL}, names |-> {<<>>},
              faults |-> {ErrSendRequest, ErrWriteFile, ErrReadData}, calls |-> TRUE,
              limit |-> MaxTasks]

\* one task, and a handler that lists it while the others act
InitReaders ==
    /\ Start
    /\ env = [urls |-> {"", GoodURL}, names |-> {<<>>},
              faults |-> {ErrSendRequest, ErrWriteFile, ErrReadData}, calls |-> FALSE,
              limit |-> MaxTasks - 1]

\* file names a caller can ask for: none, one without an extension, one with an
\* extension, one whose only dot is in a directory, one that ends in a dot
FileNames ==
    {<<>>, <<"a">>, <<"a", ".", "t", "s">>, <<"b", ".", "c", "/", "a">>, <<"a", ".">>}

\* the calls with the file names, and what they return
InitNames ==
    /\ Start
    /\ env = [urls |-> {"", GoodURL}, names |-> FileNames,
              faults |-> {ErrSendRequest, ErrWriteFile, ErrReadData}, calls |-> TRUE,
              limit |-> MaxTasks - 1]

\* ---------------------------------------------------------------- Downloader
\* CreateTask; now is the reading of time.Now().UnixNano() the id is printed from
CreateTask(url, fileName, now) ==
    LET taskID == Itoa(now)
        name == ResolveFileName(fileName, taskID)
        task == [ID |-> taskID, URL |-> url, FileName |-> name,
                 FilePath |-> Join(DataDir, name),
                 Status |-> TaskStatusDownloading, FileSize |-> 0,
                 StartTime |-> SomeTime, EndTime |-> NilTime,
                 ErrorMessage |-> ""]
        o == Len(tasks) + 1
    IN  /\ tasks' = Append(tasks, task)
        /\ activeTasks' = MapPut(activeTasks, taskID, o)
        /\ worker' = Append(worker, NewWorker)
        /\ deleted' = Append(deleted, "no")
        /\ lastOp' = RetCreate(url, fileName, taskID, o, ErrNil)
        /\ UNCHANGED <<env, view>>
        /\ UNCHANGED <<completedTasks, cancelFuncs, clients, files>>

\* if cancel, exists := d.cancelFuncs[taskID]; exists { cancel() }:
\* the context of the worker that stored the function is done
Cancel(w, taskID) ==
    IF taskID \in DOMAIN cancelFuncs
    THEN [w EXCEPT ![cancelFuncs[taskID]].ctxDone = TRUE]
    ELSE w

\* handleDownloadError that forgets task.EndTime
handleDownloadErrorNoEndTime(o, err) ==
    /\ tasks' = [tasks EXCEPT ![o].Status = TaskStatusError,
                              ![o].ErrorMessage = err]
    /\ activeTasks' = MapDelete(activeTasks, tasks[o].ID)
    /\ completedTasks' = MapPut(completedTasks, tasks[o].ID, o)

\* handleDownloadError that leaves the task in the active partition
handleDownloadErrorKeepActive(o, err) ==
    /\ tasks' = [tasks EXCEPT ![o].Status = TaskStatusError,
                              ![o].ErrorMessage = err,
                              ![o].EndTime = SomeTime]
    /\ completedTasks' = MapPut(completedTasks, tasks[o].ID, o)
    /\ UNCHANGED activeTasks

\* handleDownloadError that forgets task.Status
handleDownloadErrorNoStatus(o, err) ==
    /\ tasks' = [tasks EXCEPT ![o].ErrorMessage = err,
                              ![o].EndTime = SomeTime]
    /\ activeTasks' = MapDelete(activeTasks, tasks[o].ID)
    /\ completedTasks' = MapPut(completedTasks, tasks[o].ID, o)

handleDownloadError(o, err) ==
    /\ tasks' = [tasks EXCEPT ![o].Status = TaskStatusError,
                              ![o].ErrorMessage = err,
                              ![o].EndTime = SomeTime]
    /\ activeTasks' = MapDelete(activeTasks, tasks[o].ID)
    /\ completedTasks' = MapPut(completedTasks, tasks[o].ID, o)

\* completeTask that stores the bytes read since the last flush
completeTaskSinceFlush(o, totalBytes) ==
    /\ tasks' = [tasks EXCEPT ![o].Status = TaskStatusCompleted,
                              ![o].FileSize = totalBytes - tasks[o].FileSize,
                              ![o].EndTime = SomeTime]
    /\ activeTasks' = MapDelete(activeTasks, tasks[o].ID)
    /\ completedTasks' = MapPut(completedTasks, tasks[o].ID, o)

\* completeTask that keeps the size of the last flush
completeTaskNoSize(o, totalBytes) ==
    /\ tasks' = [tasks EXCEPT ![o].Status = TaskStatusCompleted,
                              ![o].EndTime = SomeTime]
    /\ activeTasks' = MapDelete(activeTasks, tasks[o].ID)
    /\ completedTasks' = MapPut(completedTasks, tasks[o].ID, o)

completeTask(o, totalBytes) ==
    /\ tasks' = [tasks EXCEPT ![o].Status = TaskStatusCompleted,
                              ![o].FileSize = totalBytes,
                              ![o].EndTime = SomeTime]
    /\ activeTasks' = MapDelete(activeTasks, tasks[o].ID)
    /\ completedTasks' = MapPut(completedTasks, tasks[o].ID, o)

(***************************************************************************)
(* The handlers encode a task without the lock, so a read of the encoder   *)
(* can fall inside a critical section that writes the task.  Every such    *)
(* section (StopTask, handleDownloadError, completeTask) writes Status     *)
(* first and EndTime last, and the encoder reads Status before EndTime:    *)
(* the one answer that no placement of the two reads between critical      *)
(* sections gives is Status as the section writes it with EndTime as it    *)
(* was before.  A step that writes the task being encoded either leaves    *)
(* the encoder where it is or lets it read that.                           *)
(***************************************************************************)
EncodeDuringWrite ==
    \/ view' = view
    \/ /\ view.pc = "Status"
       /\ tasks'[view.task] # tasks[view.task]
       /\ view' = [view EXCEPT !.pc = "sent",
                               !.Status = tasks'[view.task].Status,
                               !.EndTime = tasks[view.task].EndTime]

\* StopTask that takes the task out of the active partition and forgets to put
\* it in the finished one
StopTaskNoInsert(taskID) ==
    IF taskID \notin DOMAIN activeTasks
    THEN /\ lastOp' = Ret("StopTask", taskID, NoTask, ErrNotFound)
         /\ UNCHANGED <<env, view>>
         /\ UNCHANGED <<tasks, activeTasks, completedTasks, cancelFuncs, clients,
                        worker, files, deleted>>
    ELSE LET o == activeTasks[taskID]
         IN  /\ worker' = Cancel(worker, taskID)
             /\ tasks' = [tasks EXCEPT ![o].Status = TaskStatusCompleted,
                                       ![o].EndTime = SomeTime]
             /\ activeTasks' = MapDelete(activeTasks, taskID)
             /\ lastOp' = Ret("StopTask", taskID, o, ErrNil)
             /\ UNCHANGED <<env, view>>
             /\ UNCHANGED <<completedTasks, cancelFuncs, clients, files, deleted>>

\* StopTask that leaves the task in the active partition
StopTaskNoDelete(taskID) ==
    IF taskID \notin DOMAIN activeTasks
    THEN /\ lastOp' = Ret("StopTask", taskID, NoTask, ErrNotFound)
         /\ UNCHANGED <<env, view>>
         /\ UNCHANGED <<tasks, activeTasks, completedTasks, cancelFuncs, clients,
                        worker, files, deleted>>
    ELSE LET o == activeTasks[taskID]
         IN  /\ worker' = Cancel(worker, taskID)
             /\ tasks' = [tasks EXCEPT ![o].Status = TaskStatusCompleted,
                                       ![o].EndTime = SomeTime]
             /\ completedTasks' = MapPut(completedTasks, taskID, o)
             /\ lastOp' = Ret("StopTask", taskID, o, ErrNil)
             /\ UNCHANGED <<env, view>>
             /\ UNCHANGED <<activeTasks, cancelFuncs, clients, files, deleted>>

\* StopTask that cancels before it looks the task up
StopTaskCancelFirst(taskID) ==
    IF taskID \notin DOMAIN activeTasks
    THEN /\ worker' = Cancel(worker, taskID)
         /\ lastOp' = Ret("StopTask", taskID, NoTask, ErrNotFound)
         /\ UNCHANGED <<env, view>>
         /\ UNCHANGED <<tasks, activeTasks, completedTasks, cancelFuncs, clients,
                        files, deleted>>
    ELSE LET o == activeTasks[taskID]
         IN  /\ worker' = Cancel(worker, taskID)
             /\ tasks' = [tasks EXCEPT ![o].Status = TaskStatusCompleted,
                                       ![o].EndTime = SomeTime]
             /\ activeTasks' = MapDelete(activeTasks, taskID)
             /\ completedTasks' = MapPut(completedTasks, taskID, o)
             /\ lastOp' = Ret("StopTask", taskID, o, ErrNil)
             /\ UNCHANGED <<env, view>>
             /\ UNCHANGED <<cancelFuncs, clients, files, deleted>>

StopTask(taskID) ==
    IF taskID \notin DOMAIN activeTasks
    THEN /\ lastOp' = Ret("StopTask", taskID, NoTask, ErrNotFound)
         /\ UNCHANGED <<env, view>>
         /\ UNCHANGED <<tasks, activeTasks, completedTasks, cancelFuncs, clients,
                        worker, files, deleted>>
    ELSE LET o == activeTasks[taskID]
         IN  /\ worker' = Cancel(worker, taskID)
             /\ tasks' = [tasks EXCEPT ![o].Status = TaskStatusCompleted,
                                       ![o].EndTime = SomeTime]
             /\ activeTasks' = MapDelete(activeTasks, taskID)
             /\ completedTasks' = MapPut(completedTasks, taskID, o)
             /\ lastOp' = Ret("StopTask", taskID, o, ErrNil)
             /\ UNCHANGED env /\ EncodeDuringWrite
             /\ UNCHANGED <<cancelFuncs, clients, files, deleted>>

\* rmFails: os.Remove fails on an existing file with an error other than NotExist
DeleteActiveTask(taskID, rmFails) ==
    IF taskID \notin DOMAIN activeTasks
    THEN /\ lastOp' = Ret("DeleteActiveTask", taskID, NoTask, ErrNotFound)
         /\ UNCHANGED <<env, view>>
         /\ UNCHANGED <<tasks, activeTasks, completedTasks, cancelFuncs, clients,
                        worker, files, deleted>>
    ELSE LET o == activeTasks[taskID]
             path == tasks[o].FilePath
         IN  /\ worker' = Cancel(worker, taskID)
             /\ IF path \in files /\ rmFails
                THEN /\ lastOp' = Ret("DeleteActiveTask", taskID, o, ErrRemove)
                     /\ UNCHANGED <<env, view>>
                     /\ UNCHANGED <<activeTasks, files, deleted>>
                ELSE /\ files' = files \ {path}
                     /\ activeTasks' = MapDelete(activeTasks, taskID)
                     /\ deleted' = Deleted(o, "active")
                     /\ lastOp' = Ret("DeleteActiveTask", taskID, o, ErrNil)
                     /\ UNCHANGED <<env, view>>
             /\ UNCHANGED <<tasks, completedTasks, cancelFuncs, clients>>

DeleteCompletedTask(taskID, rmFails) ==
    IF taskID \notin DOMAIN completedTasks
    THEN /\ lastOp' = Ret("DeleteCompletedTask", taskID, NoTask, ErrNotFound)
         /\ UNCHANGED <<env, view>>
         /\ UNCHANGED <<tasks, activeTasks, completedTasks, cancelFuncs, clients,
                        worker, files, deleted>>
    ELSE LET o == completedTasks[taskID]
             path == tasks[o].FilePath
         IN  /\ IF path \in files /\ rmFails
                THEN /\ lastOp' = Ret("DeleteCompletedTask", taskID, o, ErrRemove)
                     /\ UNCHANGED <<env, view>>
                     /\ UNCHANGED <<completedTasks, files, deleted>>
                ELSE /\ files' = files \ {path}
                     /\ completedTasks' = MapDelete(completedTasks, taskID)
                     /\ deleted' = Deleted(o, "completed")
                     /\ lastOp' = Ret("DeleteCompletedTask", taskID, o, ErrNil)
                     /\ UNCHANGED <<env, view>>
             /\ UNCHANGED <<tasks, activeTasks, cancelFuncs, clients, worker>>

\* ------------------------------------------------------------------ handlers
\* handleCreateTask without the check of the url
handleCreateTaskNoCheck(url, fileName, now) ==
    /\ Len(tasks) < env.limit
    /\ now <= Len(tasks) + 1
    /\ CreateTask(url, fileName, now)

\* handleCreateTask: an empty url is answered 400 before CreateTask is called.
\* Only the equality of two readings of the clock matters, so the readings are
\* named in the order they first occur: the reading of a call is one of the
\* earlier ones, or the next name.
handleCreateTask(url, fileName, now) ==
    IF url = ""
    THEN /\ lastOp' = RetCreate(url, fileName, <<>>, NoTask, ErrBadRequest)
         /\ UNCHANGED <<env, view>>
         /\ UNCHANGED <<tasks, activeTasks, completedTasks, cancelFuncs, clients,
                        worker, files, deleted>>
    ELSE /\ Len(tasks) < env.limit
         /\ now <= Len(tasks) + 1
         /\ CreateTask(url, fileName, now)

(***************************************************************************)
(* handleGetActiveTasks and handleGetCompletedTasks: GetActiveTasks /      *)
(* GetCompletedTasks copy the pointers of the partition under the read     *)
(* lock, and json.Encode then reads the fields of each task through its    *)
(* pointer, in the order of the struct, with no lock held.  view follows   *)
(* the encoding of one task o of the slice: at is what the task held when  *)
(* the call returned, Status and EndTime are what the encoder read.        *)
(***************************************************************************)
GetTasks(partition, o) ==
    /\ view.pc \in {"idle", "sent"}
    /\ \E id \in DOMAIN partition : partition[id] = o
    /\ view' = [pc |-> "Status", task |-> o,
                at |-> [Status |-> tasks[o].Status, EndTime |-> tasks[o].EndTime],
                Status |-> "", EndTime |-> ""]
    /\ UNCHANGED <<tasks, activeTasks, completedTasks, cancelFuncs, clients, worker,
                   files, env, lastOp, deleted>>

handleGetActiveTasks(o) == GetTasks(activeTasks, o)

handleGetCompletedTasks(o) == GetTasks(completedTasks, o)

\* the encoder reads task.Status
EncodeStatus ==
    /\ view.pc = "Status"
    /\ view' = [view EXCEPT !.pc = "EndTime", !.Status = tasks[view.task].Status]
    /\ UNCHANGED <<tasks, activeTasks, completedTasks, cancelFuncs, clients, worker,
                   files, env, lastOp, deleted>>

\* the encoder reads task.EndTime, the last field that changes, and the answer
\* is sent
EncodeEndTime ==
    /\ view.pc = "EndTime"
    /\ view' = [view EXCEPT !.pc = "sent", !.EndTime = tasks[view.task].EndTime]
    /\ UNCHANGED <<tasks, activeTasks, completedTasks, cancelFuncs, clients, worker,
                   files, env, lastOp, deleted>>

\* ------------------------------------------------------------ startDownload
(***************************************************************************)
(* The goroutine of task o.  A step is placed where the goroutine touches  *)
(* what others see: a critical section of d.mu, os.Create, or the select   *)
(* on ctx.Done().  What the goroutine computes on its own before such a    *)
(* point (the answer of the network, the result of a Read or a Write) is   *)
(* an input of the step: it does not depend on the shared state, so        *)
(* placing it at the later point changes no sequence of shared states.     *)
(***************************************************************************)
Local(o, w) == [worker EXCEPT ![o] = w]

\* context.WithCancel, then under the lock: cancelFuncs[task.ID] and clients[task.ID]
WorkerRegister(o) ==
    /\ worker[o].pc = "spawned"
    /\ cancelFuncs' = MapPut(cancelFuncs, tasks[o].ID, o)
    /\ clients' = MapPut(clients, tasks[o].ID, o)
    /\ worker' = Local(o, [worker[o] EXCEPT !.pc = "request"])
    /\ lastOp' = WorkerOp
    /\ UNCHANGED <<env, view>>
    /\ UNCHANGED <<tasks, activeTasks, completedTasks, files, deleted>>

\* the failures before the loop, each ending in handleDownloadError and return:
\* NewRequestWithContext (exactly when the URL does not parse), client.Do,
\* resp.StatusCode != 200, os.Create
\* os.Create always fails when the directory of the path does not exist
ConnectErrors(url, path) ==
    IF ~UrlParses(url) THEN {ErrCreateRequest}
    ELSE IF ~UrlHasScheme(url) THEN {ErrSendRequest}
    ELSE ({ErrSendRequest, ErrStatusCode, ErrCreateFile} \cap env.faults)
            \cup (IF DirExists(path) THEN {} ELSE {ErrCreateFile})

WorkerConnectFail(o, err) ==
    /\ worker[o].pc = "request"
    /\ err \in ConnectErrors(tasks[o].URL, tasks[o].FilePath)
    /\ handleDownloadError(o, err)
    /\ worker' = Local(o, [worker[o] EXCEPT !.pc = "cleanup", !.exit = "error"])
    /\ lastOp' = WorkerOp
    /\ UNCHANGED env /\ EncodeDuringWrite
    /\ UNCHANGED <<cancelFuncs, clients, files, deleted>>

\* the request was answered with 200 and os.Create(task.FilePath) creates or
\* truncates the file
WorkerCreateFile(o) ==
    /\ worker[o].pc = "request"
    /\ UrlParses(tasks[o].URL) /\ UrlHasScheme(tasks[o].URL)
    /\ DirExists(tasks[o].FilePath)
    /\ files' = files \cup {tasks[o].FilePath}
    /\ worker' = Local(o, [worker[o] EXCEPT !.pc = "check", !.file = TRUE])
    /\ lastOp' = WorkerOp
    /\ UNCHANGED <<env, view>>
    /\ UNCHANGED <<tasks, activeTasks, completedTasks, cancelFuncs, clients, deleted>>

\* select on ctx.Done() at the head of the loop
WorkerCheck(o) ==
    /\ worker[o].pc = "check"
    /\ worker' = Local(o, IF worker[o].ctxDone
                           THEN [worker[o] EXCEPT !.pc = "cleanup", !.exit = "cancelled"]
                           ELSE [worker[o] EXCEPT !.pc = "read"])
    /\ lastOp' = WorkerOp
    /\ UNCHANGED <<env, view>>
    /\ UNCHANGED <<tasks, activeTasks, completedTasks, cancelFuncs, clients, files,
                   deleted>>

\* resp.Body.Read returned n > 0 and file.Write failed
WorkerWriteFail(o) ==
    /\ worker[o].pc = "read"
    /\ ErrWriteFile \in env.faults
    /\ handleDownloadError(o, ErrWriteFile)
    /\ worker' = Local(o, [worker[o] EXCEPT !.pc = "cleanup", !.exit = "error"])
    /\ lastOp' = WorkerOp
    /\ UNCHANGED env /\ EncodeDuringWrite
    /\ UNCHANGED <<cancelFuncs, clients, files, deleted>>

\* resp.Body.Read returned (n, err) and the n bytes were written: totalBytes
\* grows by n; flush says that updateInterval has elapsed, and then
\* task.FileSize = totalBytes under the lock; without a flush the step goes
\* on to what err asks for
WorkerRead(o, n, err, flush) ==
    LET total == worker[o].totalBytes + n
        w == [worker[o] EXCEPT !.totalBytes = total]
    IN  /\ worker[o].pc = "read"
        /\ total <= MaxBytes
        /\ err = "other" => ErrReadData \in env.faults
        /\ IF n > 0 /\ flush
           THEN /\ tasks' = [tasks EXCEPT ![o].FileSize = total]
                /\ worker' = Local(o, [w EXCEPT !.pc =
                      CASE err = "nil" -> "check" [] err = "EOF" -> "complete"
                        [] OTHER -> "fail"])
                /\ UNCHANGED <<activeTasks, completedTasks>>
           ELSE CASE err = "nil" ->
                       /\ worker' = Local(o, [w EXCEPT !.pc = "check"])
                       /\ UNCHANGED <<tasks, activeTasks, completedTasks>>
                  [] err = "EOF" ->
                       /\ completeTask(o, total)
                       /\ worker' = Local(o, [w EXCEPT !.pc = "cleanup",
                                                       !.exit = "eof"])
                  [] OTHER ->
                       /\ handleDownloadError(o, ErrReadData)
                       /\ worker' = Local(o, [w EXCEPT !.pc = "cleanup",
                                                       !.exit = "error"])
        /\ lastOp' = WorkerOp
        /\ UNCHANGED env /\ EncodeDuringWrite
        /\ UNCHANGED <<cancelFuncs, clients, files, deleted>>

\* after a flush, io.EOF: d.completeTask(task, totalBytes)
WorkerComplete(o) ==
    /\ worker[o].pc = "complete"
    /\ completeTask(o, worker[o].totalBytes)
    /\ worker' = Local(o, [worker[o] EXCEPT !.pc = "cleanup", !.exit = "eof"])
    /\ lastOp' = WorkerOp
    /\ UNCHANGED env /\ EncodeDuringWrite
    /\ UNCHANGED <<cancelFuncs, clients, files, deleted>>

\* after a flush, another error of Read: d.handleDownloadError(task, err)
WorkerFail(o) ==
    /\ worker[o].pc = "fail"
    /\ handleDownloadError(o, ErrReadData)
    /\ worker' = Local(o, [worker[o] EXCEPT !.pc = "cleanup", !.exit = "error"])
    /\ lastOp' = WorkerOp
    /\ UNCHANGED env /\ EncodeDuringWrite
    /\ UNCHANGED <<cancelFuncs, clients, files, deleted>>

\* the deferred calls that empty the two maps instead of deleting one id
WorkerCleanupAll(o) ==
    /\ worker[o].pc = "cleanup"
    /\ cancelFuncs' = EmptyMap
    /\ clients' = EmptyMap
    /\ worker' = Local(o, [worker[o] EXCEPT !.pc = "done", !.file = FALSE,
                                            !.totalBytes = 0])
    /\ lastOp' = WorkerOp
    /\ UNCHANGED <<env, view>>
    /\ UNCHANGED <<tasks, activeTasks, completedTasks, files, deleted>>

\* the deferred calls on return: file.Close, resp.Body.Close, and under the lock
\* delete(cancelFuncs, task.ID), delete(clients, task.ID)
WorkerCleanup(o) ==
    /\ worker[o].pc = "cleanup"
    /\ cancelFuncs' = MapDelete(cancelFuncs, tasks[o].ID)
    /\ clients' = MapDelete(clients, tasks[o].ID)
    /\ worker' = Local(o, [worker[o] EXCEPT !.pc = "done", !.file = FALSE,
                                            !.totalBytes = 0])
    /\ lastOp' = WorkerOp
    /\ UNCHANGED <<env, view>>
    /\ UNCHANGED <<tasks, activeTasks, completedTasks, files, deleted>>

\* -------------------------------------------------------------------- Next
Objs == DOMAIN tasks
ReadErrors == {"nil", "EOF", "other"}

Next ==
    \/ \E url \in env.urls, fileName \in env.names, now \in Clock :
          handleCreateTask(url, fileName, now)
    \/ \E taskID \in TaskIDs : StopTask(taskID)
    \/ \E taskID \in TaskIDs, rmFails \in BOOLEAN : DeleteActiveTask(taskID, rmFails)
    \/ \E taskID \in TaskIDs, rmFails \in BOOLEAN : DeleteCompletedTask(taskID, rmFails)
    \/ \E o \in Objs : WorkerRegister(o)
    \/ \E o \in Objs : \E err \in ConnectErrors(tasks[o].URL, tasks[o].FilePath) :
          WorkerConnectFail(o, err)
    \/ \E o \in Objs : WorkerCreateFile(o)
    \/ \E o \in Objs : WorkerCheck(o)
    \/ \E o \in Objs : WorkerWriteFail(o)
    \/ \E o \in Objs, n \in 0..1, err \in ReadErrors, flush \in BOOLEAN :
          WorkerRead(o, n, err, flush)
    \/ \E o \in Objs : WorkerComplete(o)
    \/ \E o \in Objs : WorkerFail(o)
    \/ \E o \in Objs : WorkerCleanup(o)

\* the calls, the workers, and a handler that lists the tasks
NextReaders ==
    \/ Next
    \/ \E o \in Objs : handleGetActiveTasks(o)
    \/ \E o \in Objs : handleGetCompletedTasks(o)
    \/ EncodeStatus
    \/ EncodeEndTime

Spec == Init /\ [][Next]_vars
SpecReaders == InitReaders /\ [][NextReaders]_vars
SpecCalls == InitCalls /\ [][Next]_vars
SpecNames == InitNames /\ [][Next]_vars

TypeOK ==
    /\ Len(tasks) <= MaxTasks
    /\ Len(worker) = Len(tasks)
    /\ Len(deleted) = Len(tasks)
    /\ \A id \in DOMAIN activeTasks : activeTasks[id] \in Objs
    /\ \A id \in DOMAIN completedTasks : completedTasks[id] \in Objs
    /\ \A o \in Objs : worker[o].totalBytes \in 0..MaxBytes
    /\ view.task \in Objs \cup {NoTask}

\* ------------------------------------------------------------------ claims
\* the map entry of the task's id is this task
InActive(o) ==
    tasks[o].ID \in DOMAIN activeTasks /\ activeTasks[tasks[o].ID] = o
InCompleted(o) ==
    tasks[o].ID \in DOMAIN completedTasks /\ completedTasks[tasks[o].ID] = o
Running(o) == worker[o].pc \notin {"cleanup", "done"}

\* C1: once the status of a task is completed or error, no step changes it.
C1_TerminalStatusFinal ==
    [][\A o \in DOMAIN tasks :
          tasks[o].Status # TaskStatusDownloading
             => tasks'[o].Status = tasks[o].Status]_vars

\* C2: a task on which DeleteActiveTask returned success is in neither partition,
\* in every later state.
C2_DeletedActiveStaysAbsent ==
    \A o \in Objs : deleted[o] = "active" => ~InActive(o) /\ ~InCompleted(o)

\* C3: a task on which DeleteCompletedTask returned success has no record in the
\* finished partition and no file, in every later state (so that a second
\* DeleteCompletedTask finds nothing).
C3_DeletedCompletedStaysGone ==
    \A o \in Objs :
        deleted[o] = "completed" => ~InCompleted(o) /\ tasks[o].FilePath \notin files

\* C4: the id of every task that was created and not deleted is a key of exactly
\* one of activeTasks and completedTasks.
C4_ExactlyOnePartition ==
    \A o \in Objs :
        deleted[o] = "no" =>
            (tasks[o].ID \in DOMAIN activeTasks) # (tasks[o].ID \in DOMAIN completedTasks)

\* C5: in every state in which the lock is free, a task has status downloading
\* exactly when its EndTime is nil.
C5_DownloadingIffNoEndTime ==
    \A o \in Objs :
        (tasks[o].Status = TaskStatusDownloading) <=> (tasks[o].EndTime = NilTime)

\* a task stopped by StopTask while its worker runs, beside one that failed
C5_Witness ==
    \E o1, o2 \in Objs :
        /\ tasks[o1].Status = TaskStatusCompleted /\ tasks[o1].EndTime = SomeTime
        /\ Running(o1)
        /\ tasks[o2].Status = TaskStatusDownloading /\ tasks[o2].EndTime = NilTime
        /\ worker[o2].pc = "read"

\* what a call can change besides the history
shared == <<tasks, activeTasks, completedTasks, cancelFuncs, clients, worker, files>>

\* C6: when StopTask or DeleteActiveTask returns success, the context of the
\* worker of the task it acted on is cancelled.
C6_SuccessMeansCancelled ==
    (lastOp.op \in {"StopTask", "DeleteActiveTask"} /\ lastOp.err = ErrNil)
        => worker[lastOp.task].ctxDone

\* C7: StopTask(id) with id in the active partition returns success, and when it
\* returns the task is in the finished partition, out of the active one, with
\* EndTime set.
C7_StopMovesToFinished ==
    [][\A id \in TaskIDs :
          (lastOp'.op = "StopTask" /\ lastOp'.id = id /\ id \in DOMAIN activeTasks)
             => /\ lastOp'.err = ErrNil
                /\ id \notin DOMAIN activeTasks'
                /\ id \in DOMAIN completedTasks'
                /\ completedTasks'[id] = activeTasks[id]
                /\ tasks'[activeTasks[id]].EndTime # NilTime]_vars

\* StopTask returned success on a task whose worker is reading the stream
C7_Witness ==
    /\ lastOp.op = "StopTask" /\ lastOp.err = ErrNil
    /\ InCompleted(lastOp.task)
    /\ tasks[lastOp.task].EndTime = SomeTime
    /\ worker[lastOp.task].pc = "read"

\* C8 as claimed: StopTask(id) right after a successful StopTask(id) returns
\* success and changes no task and no partition.
C8_SecondStopSucceeds ==
    [][(lastOp'.op = "StopTask" /\ lastOp'.again)
          => lastOp'.err = ErrNil /\ UNCHANGED <<tasks, activeTasks, completedTasks>>]_vars

\* C8 as amended: StopTask(id) right after a successful StopTask(id) returns the
\* not-found error and changes no task field, no partition, no cancellation
\* entry, no context and no file; the task keeps the status completed.
C8_SecondStopNotFound ==
    [][(lastOp'.op = "StopTask" /\ lastOp'.again)
          => /\ lastOp'.err = ErrNotFound
             /\ UNCHANGED shared
             /\ tasks'[lastOp.task].Status = TaskStatusCompleted]_vars

\* the second of two StopTask calls in a row on a task whose worker still runs
C8_Witness ==
    /\ lastOp.op = "StopTask" /\ lastOp.again
    /\ lastOp.id \in DOMAIN completedTasks
    /\ Running(completedTasks[lastOp.id])

\* C9: StopTask and DeleteActiveTask with an id that is not in the active
\* partition, and DeleteCompletedTask with an id that is not in the finished
\* one, return the not-found error and change nothing: no partition, no task
\* field, no cancellation entry, no context (no cancel is fired), no file.
C9_NotFoundChangesNothing ==
    [][\A id \in TaskIDs :
          (\/ /\ lastOp'.op \in {"StopTask", "DeleteActiveTask"}
              /\ lastOp'.id = id /\ id \notin DOMAIN activeTasks
           \/ /\ lastOp'.op = "DeleteCompletedTask"
              /\ lastOp'.id = id /\ id \notin DOMAIN completedTasks)
             => lastOp'.err = ErrNotFound /\ UNCHANGED shared]_vars

\* a call answered not-found for an id that is in the other partition and whose
\* cancel function is still registered, the context not yet cancelled
C9_Witness ==
    /\ lastOp.op \in {"StopTask", "DeleteActiveTask"}
    /\ lastOp.err = ErrNotFound
    /\ lastOp.id \in DOMAIN completedTasks
    /\ lastOp.id \in DOMAIN cancelFuncs
    /\ ~worker[cancelFuncs[lastOp.id]].ctxDone

\* C10: a create request with an empty url is refused at once: nothing is
\* inserted in the active partition and no worker is launched.
C10_EmptyUrlRefused ==
    [][(lastOp'.op = "CreateTask" /\ lastOp'.url = "")
          => /\ lastOp'.err = ErrBadRequest
             /\ lastOp'.task = NoTask
             /\ UNCHANGED shared]_vars

\* an empty url was refused while another task is active
C10_Witness ==
    /\ lastOp.op = "CreateTask" /\ lastOp.url = "" /\ lastOp.err = ErrBadRequest
    /\ DOMAIN activeTasks # {}

\* the last element of the path has a dot
HasExtension(name) ==
    \E i \in 1..Len(name) :
        name[i] = "." /\ \A j \in i..Len(name) : name[j] # "/"

\* C11: when CreateTask(url, name) returns, the task it returns is in the active
\* partition with Status downloading, FileSize 0 and EndTime nil, and its
\* FileName is stream_<id>.flv if name is empty, name followed by .flv if name
\* has no extension, and name otherwise.
C11_CreateTaskResult ==
    [][(lastOp'.op = "CreateTask" /\ lastOp'.err = ErrNil)
          => LET o == lastOp'.task
                 t == tasks'[o]
                 name == lastOp'.name
             IN  /\ o = Len(tasks) + 1
                 /\ t.ID = lastOp'.id
                 /\ t.ID \in DOMAIN activeTasks' /\ activeTasks'[t.ID] = o
                 /\ t.Status = TaskStatusDownloading
                 /\ t.FileSize = 0
                 /\ t.EndTime = NilTime
                 /\ t.FileName =
                       IF name = <<>>
                       THEN <<"s", "t", "r", "e", "a", "m", "_">> \o t.ID
                               \o <<".", "f", "l", "v">>
                       ELSE IF HasExtension(name) THEN name
                       ELSE name \o <<".", "f", "l", "v">>]_vars

\* CreateTask returned a task for a name whose only dot is in a directory
C11_Witness ==
    /\ lastOp.op = "CreateTask" /\ lastOp.err = ErrNil
    /\ lastOp.name = <<"b", ".", "c", "/", "a">>
    /\ tasks[lastOp.task].FileName = <<"b", ".", "c", "/", "a", ".", "f", "l", "v">>
    /\ tasks[lastOp.task].ID \in DOMAIN activeTasks

\* C12: the FileSize of a task never decreases from one state to the next.
C12_FileSizeMonotone ==
    [][\A o \in DOMAIN tasks : tasks'[o].FileSize >= tasks[o].FileSize]_vars

\* a task whose size was flushed, then stopped, then completed by its worker
C12_Witness ==
    \E o \in Objs :
        /\ tasks[o].FileSize > 0
        /\ worker[o].ctxDone
        /\ worker[o].exit = "eof"

\* the worker of o leaves its body at this step, on the path named exit
Exits(o, exit) == worker[o].exit = "none" /\ worker'[o].exit = exit

\* C13: when the worker of a task reaches the end of the stream after writing
\* N bytes, the task is in the finished partition and out of the active one,
\* with Status completed, EndTime set and FileSize N.
C13_EofCompletes ==
    [][\A o \in DOMAIN tasks :
          Exits(o, "eof")
             => /\ tasks'[o].Status = TaskStatusCompleted
                /\ tasks'[o].EndTime # NilTime
                /\ tasks'[o].FileSize = worker'[o].totalBytes
                /\ tasks[o].ID \notin DOMAIN activeTasks'
                /\ tasks[o].ID \in DOMAIN completedTasks'
                /\ completedTasks'[tasks[o].ID] = o]_vars

\* the stream ended after a byte that no flush had recorded
C13_Witness ==
    \E o \in Objs :
        /\ worker[o].exit = "eof" /\ worker[o].pc = "cleanup"
        /\ worker[o].totalBytes = MaxBytes
        /\ tasks[o].FileSize = MaxBytes
        /\ InCompleted(o)

\* C14: a failure in a worker is final: at the step of the failure the task
\* gets Status error, a non-empty ErrorMessage and EndTime, leaves the active
\* partition and is in the finished one; from then on the worker only runs its
\* deferred cleanup (no request, no read) and the task keeps Status error.
C14_FailureIsTerminal ==
    [][\A o \in DOMAIN tasks :
          /\ Exits(o, "error")
                => /\ tasks'[o].Status = TaskStatusError
                   /\ tasks'[o].ErrorMessage # ""
                   /\ tasks'[o].EndTime # NilTime
                   /\ tasks[o].ID \notin DOMAIN activeTasks'
                   /\ tasks[o].ID \in DOMAIN completedTasks'
                   /\ completedTasks'[tasks[o].ID] = o
                   /\ worker'[o].pc = "cleanup"
          /\ worker[o].exit = "error"
                => /\ worker'[o].pc \in {"cleanup", "done"}
                   /\ tasks'[o].Status = TaskStatusError]_vars

\* one task failed at the construction of the request, another at a write
C14_Witness ==
    \E o1, o2 \in Objs :
        /\ tasks[o1].Status = TaskStatusError
        /\ tasks[o1].ErrorMessage = ErrCreateRequest
        /\ worker[o1].pc = "done"
        /\ tasks[o2].Status = TaskStatusError
        /\ tasks[o2].ErrorMessage = ErrWriteFile
        /\ InCompleted(o2)

\* C15: a task is finalized once: no worker runs completeTask or
\* handleDownloadError on a task whose EndTime is already set.
C15_FinalizedOnce ==
    [][\A o \in DOMAIN tasks :
          tasks[o].EndTime # NilTime
             => ~(Exits(o, "eof") \/ Exits(o, "error"))]_vars

\* C16: every id with an entry in cancelFuncs or in clients is an id of the
\* active partition.
C16_RegistryWithinActive ==
    (DOMAIN cancelFuncs) \cup (DOMAIN clients) \subseteq DOMAIN activeTasks

\* C17: no two workers hold the same path open, and the file a worker holds
\* open has not been removed by another component.
C17_FileExclusive ==
    /\ \A o1, o2 \in Objs :
          (o1 # o2 /\ worker[o1].file /\ worker[o2].file)
             => tasks[o1].FilePath # tasks[o2].FilePath
    /\ \A o \in Objs : worker[o].file => tasks[o].FilePath \in files

\* C19: no two tasks were given the same id.
C19_UniqueIds ==
    \A o1, o2 \in Objs : o1 # o2 => tasks[o1].ID # tasks[o2].ID

\* C20: a task with a non-empty ErrorMessage has Status error.
C20_ErrorMessageOnlyOnError ==
    \A o \in Objs : tasks[o].ErrorMessage # "" => tasks[o].Status = TaskStatusError

\* a task that StopTask had finished and whose worker then failed
C20_Witness ==
    \E o \in Objs :
        /\ tasks[o].Status = TaskStatusError
        /\ tasks[o].ErrorMessage = ErrReadData
        /\ worker[o].ctxDone
        /\ InCompleted(o)

\* C18: what a handler has read from a task it got from GetActiveTasks or
\* GetCompletedTasks, when it has read it all, is what the task held when the
\* call returned, and is never EndTime set together with Status downloading.
C18_ConsistentSnapshot ==
    view.pc = "sent"
       => /\ ~(view.Status = TaskStatusDownloading /\ view.EndTime # NilTime)
          /\ [Status |-> view.Status, EndTime |-> view.EndTime] = view.at

\* the entry of id in map m, if any, is the same after the step
SameEntry(m, mNext, id) ==
    /\ (id \in DOMAIN m) <=> (id \in DOMAIN mNext)
    /\ id \in DOMAIN m => mNext[id] = m[id]

\* the step leaves alone the fields of task b, the membership of its id in the
\* two partitions, the entries of its id in cancelFuncs and clients, and its
\* worker with its context
LeftAlone(b) ==
    /\ tasks'[b] = tasks[b]
    /\ SameEntry(activeTasks, activeTasks', tasks[b].ID)
    /\ SameEntry(completedTasks, completedTasks', tasks[b].ID)
    /\ SameEntry(cancelFuncs, cancelFuncs', tasks[b].ID)
    /\ SameEntry(clients, clients', tasks[b].ID)
    /\ worker'[b] = worker[b]

\* the step is StopTask, DeleteActiveTask or DeleteCompletedTask called with
\* another id than the one of b, or a step of the worker of a task with another id
OnAnotherId(b) ==
    \/ /\ lastOp'.op \in {"StopTask", "DeleteActiveTask", "DeleteCompletedTask"}
       /\ lastOp'.id # tasks[b].ID
    \/ /\ lastOp'.op = "worker"
       /\ \E a \in DOMAIN tasks : worker'[a] # worker[a] /\ tasks[a].ID # tasks[b].ID

\* C21: StopTask, DeleteActiveTask and DeleteCompletedTask on a task, and every
\* step of its worker, leave unchanged the fields, the partition membership and
\* the cancellation entries of every task with another id.
C21_TasksIndependent ==
    [][\A b \in DOMAIN tasks : OnAnotherId(b) => LeftAlone(b)]_vars

\* StopTask returned success on one task while a task with another id is
\* active, registered and reading its stream
C21_Witness ==
    /\ lastOp.op = "StopTask" /\ lastOp.err = ErrNil
    /\ lastOp.id \in DOMAIN cancelFuncs
    /\ \E b \in Objs :
          /\ tasks[b].ID # lastOp.id
          /\ InActive(b)
          /\ tasks[b].ID \in DOMAIN cancelFuncs
          /\ worker[b].pc = "read" /\ ~worker[b].ctxDone

====
